---- MODULE Spec2Model ----
(***************************************************************************)
(* Model of package gx509: DetermineIfTechnicallyConstrained and its       *)
(* helper isAllZeros (src/gx509/technicalconstraints.go).  The function    *)
(* reads six fields of an x509.Certificate and returns (bool, string).     *)
(***************************************************************************)
EXTENDS Naturals, Sequences, FiniteSets, TLC

(***************************************************************************)
(* Bounds of the model.                                                    *)
(***************************************************************************)
MaxUsages == 2
MaxExcluded == 2

(***************************************************************************)
(* Values of the Go standard library the function uses.                    *)
(***************************************************************************)
IPv4len == 4
IPv6len == 16

Zeros(n) == [i \in 1..n |-> 0]

v4InV6Prefix == Zeros(10) \o <<255, 255>>

IPv4(a, b, c, d) == v4InV6Prefix \o <<a, b, c, d>>

IPv4zero == IPv4(0, 0, 0, 0)

IPv6zero == Zeros(IPv6len)

\* net.IP.Equal: an IPv4 address and the same address in IPv6 form are equal.
IPEqual(ip, x) ==
    IF Len(ip) = Len(x) THEN ip = x
    ELSE IF Len(ip) = IPv4len /\ Len(x) = IPv6len
         THEN SubSeq(x, 1, 12) = v4InV6Prefix /\ ip = SubSeq(x, 13, 16)
    ELSE IF Len(ip) = IPv6len /\ Len(x) = IPv4len
         THEN SubSeq(ip, 1, 12) = v4InV6Prefix /\ SubSeq(ip, 13, 16) = x
    ELSE FALSE

\* fmt's %v of a bool.
FmtBool(b) == IF b THEN "true" ELSE "false"

\* x509.ExtKeyUsage values.
ExtKeyUsageAny == "Any"
ExtKeyUsageServerAuth == "ServerAuth"
ExtKeyUsageClientAuth == "ClientAuth"
ExtKeyUsageNetscapeServerGatedCrypto == "NetscapeServerGatedCrypto"

ExtKeyUsages ==
    {ExtKeyUsageAny, ExtKeyUsageServerAuth, ExtKeyUsageClientAuth,
     ExtKeyUsageNetscapeServerGatedCrypto}

\* time.Date(2016, time.August, 23, 0, 0, 0, 0, time.UTC), in Unix seconds.
nsSGCCutoff == 1471910400

\* time.Time.Before
BeforeOrAt(t, u) == t <= u

Before(t, u) == t < u

(***************************************************************************)
(* isAllZeros(buf, length)                                                 *)
(***************************************************************************)
\* The variant of src/gx509.go, which ranges over the whole slice.
isAllZerosWholeSlice(buf, length) == \A i \in 1..Len(buf) : buf[i] = 0

isAllZeros(buf, length) ==
    IF length > Len(buf) THEN FALSE
    ELSE \A i \in 1..length : buf[i] = 0

(***************************************************************************)
(* DetermineIfTechnicallyConstrained, statement by statement.              *)
(***************************************************************************)
\* One iteration of the loop over cert.ExtKeyUsage.  fl holds hasServerAuth
\* and hasStepUp; returned says the iteration left the function.
UsageCaseClientAuthAsServerAuth(usage, fl) ==
    IF usage = ExtKeyUsageAny
    THEN [returned |-> TRUE, hasServerAuth |-> fl.hasServerAuth, hasStepUp |-> fl.hasStepUp]
    ELSE [returned |-> FALSE,
          hasServerAuth |-> fl.hasServerAuth
                            \/ usage \in {ExtKeyUsageServerAuth, ExtKeyUsageClientAuth},
          hasStepUp |-> fl.hasStepUp \/ usage = ExtKeyUsageNetscapeServerGatedCrypto]

\* The Any case taken only while no ServerAuth has been seen.
UsageCaseServerAuthFirst(usage, fl) ==
    IF usage = ExtKeyUsageAny /\ ~fl.hasServerAuth
    THEN [returned |-> TRUE, hasServerAuth |-> fl.hasServerAuth, hasStepUp |-> fl.hasStepUp]
    ELSE [returned |-> FALSE,
          hasServerAuth |-> fl.hasServerAuth \/ usage = ExtKeyUsageServerAuth,
          hasStepUp |-> fl.hasStepUp \/ usage = ExtKeyUsageNetscapeServerGatedCrypto]

UsageCase(usage, fl) ==
    IF usage = ExtKeyUsageAny
    THEN [returned |-> TRUE, hasServerAuth |-> fl.hasServerAuth, hasStepUp |-> fl.hasStepUp]
    ELSE [returned |-> FALSE,
          hasServerAuth |-> fl.hasServerAuth \/ usage = ExtKeyUsageServerAuth,
          hasStepUp |-> fl.hasStepUp \/ usage = ExtKeyUsageNetscapeServerGatedCrypto]

NoFlags == [returned |-> FALSE, hasServerAuth |-> FALSE, hasStepUp |-> FALSE]

RECURSIVE UsageLoop(_, _, _)
UsageLoop(usages, i, fl) ==
    IF i > Len(usages) THEN fl
    ELSE LET nx == UsageCase(usages[i], fl)
         IN  IF nx.returned THEN nx ELSE UsageLoop(usages, i + 1, nx)

\* The Any case under the name RFC 5280 gives the usage.
AnyNotPermittedRFCName == <<FALSE, "anyExtendedKeyUsage not permitted">>

AnyNotPermitted == <<FALSE, "ExtKeyUsageAny not permitted">>

ExtKeyUsageRequired == <<FALSE, "ExtKeyUsage is required">>

EligibleServerAuthOnly(hasServerAuth, stepUpEquivalentToServerAuth, hasStepUp) ==
    hasServerAuth

Eligible(hasServerAuth, stepUpEquivalentToServerAuth, hasStepUp) ==
    hasServerAuth \/ (stepUpEquivalentToServerAuth /\ hasStepUp)

NotForServerAuth(hasServerAuth, stepUpEquivalentToServerAuth, hasStepUp) ==
    <<TRUE, "Is constrained: hasServerAuth=" \o FmtBool(hasServerAuth)
            \o " || (beforeStepUpCutoff=" \o FmtBool(stepUpEquivalentToServerAuth)
            \o " && hasStepUp=" \o FmtBool(hasStepUp) \o ")">>

\* One iteration of the loop over cert.ExcludedIPAddresses.  ex holds
\* excludesIPv4 and excludesIPv6.
ExcludedCase(cidr, ex) ==
    [excludesIPv4 |-> ex.excludesIPv4
                      \/ (IPEqual(cidr.IP, IPv4zero) /\ isAllZeros(cidr.Mask, IPv4len)),
     excludesIPv6 |-> ex.excludesIPv6
                      \/ (IPEqual(cidr.IP, IPv6zero) /\ isAllZeros(cidr.Mask, IPv6len))]

NoExcludes == [excludesIPv4 |-> FALSE, excludesIPv6 |-> FALSE]

RECURSIVE ExcludedLoop(_, _, _)
ExcludedLoop(cidrs, i, ex) ==
    IF i > Len(cidrs) THEN ex
    ELSE ExcludedLoop(cidrs, i + 1, ExcludedCase(cidrs[i], ex))

constraintsText(hasDNSName, hasIPAddressInPermittedSubtrees, hasIPAddressesInExcludedSubtrees) ==
    "hasDNSName=" \o FmtBool(hasDNSName)
    \o " && (hasIPAddressInPermittedSubtrees=" \o FmtBool(hasIPAddressInPermittedSubtrees)
    \o " || hasIPAddressesInExcludedSubtrees=" \o FmtBool(hasIPAddressesInExcludedSubtrees)
    \o ")"

\* Line 79.
hasIPAddressInPermittedSubtrees(cert) == Len(cert.PermittedIPAddresses) > 0

\* Line 80.
hasIPAddressesInExcludedSubtreesEitherFamily(ex) == ex.excludesIPv4 \/ ex.excludesIPv6

hasIPAddressesInExcludedSubtrees(ex) == ex.excludesIPv4 /\ ex.excludesIPv6

\* Lines 83-84.
hasDNSNamePermittedOnly(cert) == Len(cert.PermittedDNSDomains) > 0

hasDNSName(cert) ==
    Len(cert.PermittedDNSDomains) > 0 \/ Len(cert.ExcludedDNSDomains) > 0

\* Lines 86-95 as src/gx509.go has them: the values are formatted only when
\* the answer is false.
NameConstraintDecisionBareWhenTrue(cert, ex) ==
    LET text == constraintsText(hasDNSName(cert), hasIPAddressInPermittedSubtrees(cert),
                                hasIPAddressesInExcludedSubtrees(ex))
    IN  IF hasDNSName(cert)
           /\ (hasIPAddressInPermittedSubtrees(cert) \/ hasIPAddressesInExcludedSubtrees(ex))
        THEN <<TRUE, "Is constrained">>
        ELSE <<FALSE, "Is not constrained: " \o text>>

\* Lines 79-95: the name-constraint decision, given the flags of the loop.
NameConstraintDecision(cert, ex) ==
    LET text == constraintsText(hasDNSName(cert), hasIPAddressInPermittedSubtrees(cert),
                                hasIPAddressesInExcludedSubtrees(ex))
    IN  IF hasDNSName(cert)
           /\ (hasIPAddressInPermittedSubtrees(cert) \/ hasIPAddressesInExcludedSubtrees(ex))
        THEN <<TRUE, "Is constrained: " \o text>>
        ELSE <<FALSE, "Is not constrained: " \o text \o ")">>

\* The function without its first statement (lines 33-35).
DetermineWithoutRequiredCheck(cert) ==
    LET stepUpEquivalentToServerAuth == Before(cert.NotBefore, nsSGCCutoff)
        fl == UsageLoop(cert.ExtKeyUsage, 1, NoFlags)
    IN  IF fl.returned THEN AnyNotPermitted
        ELSE IF ~Eligible(fl.hasServerAuth, stepUpEquivalentToServerAuth, fl.hasStepUp)
        THEN NotForServerAuth(fl.hasServerAuth, stepUpEquivalentToServerAuth, fl.hasStepUp)
        ELSE NameConstraintDecision(
                 cert, ExcludedLoop(cert.ExcludedIPAddresses, 1, NoExcludes))

DetermineIfTechnicallyConstrained(cert) ==
    IF Len(cert.ExtKeyUsage) = 0 THEN ExtKeyUsageRequired
    ELSE LET stepUpEquivalentToServerAuth == Before(cert.NotBefore, nsSGCCutoff)
             fl == UsageLoop(cert.ExtKeyUsage, 1, NoFlags)
         IN  IF fl.returned THEN AnyNotPermitted
             ELSE IF ~Eligible(fl.hasServerAuth, stepUpEquivalentToServerAuth, fl.hasStepUp)
             THEN NotForServerAuth(fl.hasServerAuth, stepUpEquivalentToServerAuth, fl.hasStepUp)
             ELSE NameConstraintDecision(
                      cert, ExcludedLoop(cert.ExcludedIPAddresses, 1, NoExcludes))

(***************************************************************************)
(* The copy of the function in src/gx509.go (package gx509, lines 76-163). *)
(* Its first statement and its loop over cert.ExtKeyUsage are those of     *)
(* technicalconstraints.go; time.Parse of the literal                      *)
(* "2016-08-23T00:00:00Z" returns the cutoff and no error.                 *)
(***************************************************************************)
LegacyIsAllZeros(buf) == \A i \in 1..Len(buf) : buf[i] = 0

LegacyNotForServerAuth == <<TRUE, "Is not constrained: not for Server Auth">>

LegacyExcludedCase(cidr, ex) ==
    [excludesIPv4 |-> ex.excludesIPv4
                      \/ (IPEqual(cidr.IP, IPv4zero) /\ LegacyIsAllZeros(cidr.Mask)),
     excludesIPv6 |-> ex.excludesIPv6
                      \/ (IPEqual(cidr.IP, IPv6zero) /\ LegacyIsAllZeros(cidr.Mask))]

RECURSIVE LegacyExcludedLoop(_, _, _)
LegacyExcludedLoop(cidrs, i, ex) ==
    IF i > Len(cidrs) THEN ex
    ELSE LegacyExcludedLoop(cidrs, i + 1, LegacyExcludedCase(cidrs[i], ex))

LegacyNameConstraintDecision(cert, ex) ==
    LET permitted == Len(cert.PermittedIPAddresses) > 0
        excluded == ex.excludesIPv4 /\ ex.excludesIPv6
        dns == Len(cert.PermittedDNSDomains) > 0 \/ Len(cert.ExcludedDNSDomains) > 0
    IN  IF dns /\ (permitted \/ excluded)
        THEN <<TRUE, "Is constrained">>
        ELSE <<FALSE, "Is not constrained: hasDNSName=" \o FmtBool(dns)
                      \o " && (hasIPAddressInPermittedSubtrees=" \o FmtBool(permitted)
                      \o " || hasIPAddressesInExcludedSubtrees=" \o FmtBool(excluded)
                      \o ")">>

LegacyDetermineIfTechnicallyConstrained(cert) ==
    IF Len(cert.ExtKeyUsage) = 0 THEN <<FALSE, "ExtKeyUsage is required">>
    ELSE LET stepUpEquivalentToServerAuth == Before(cert.NotBefore, nsSGCCutoff)
             fl == UsageLoop(cert.ExtKeyUsage, 1, NoFlags)
         IN  IF fl.returned THEN <<FALSE, "ExtKeyUsageAny not permitted">>
             ELSE IF ~(fl.hasServerAuth \/ (stepUpEquivalentToServerAuth /\ fl.hasStepUp))
             THEN LegacyNotForServerAuth
             ELSE LegacyNameConstraintDecision(
                      cert, LegacyExcludedLoop(cert.ExcludedIPAddresses, 1, NoExcludes))

(***************************************************************************)
(* Certificates the function is applied to.                                *)
(***************************************************************************)
SeqsUpTo(S, n) == UNION {[1..k -> S] : k \in 0..n}

IPNet(ip, mask) == [IP |-> ip, Mask |-> mask]

\* Entries of ExcludedIPAddresses: 0.0.0.0/0 as the parser returns it and as
\* the tests' templates write it (net.IPv4zero, 16 bytes, under the mask
\* net.IPMask(net.IPv4zero)), ::/0, and entries that differ from them in the
\* address or in the mask: an empty mask, a 4-byte mask on an IPv6 address, a
\* non-zero address.
ExcludedEntries ==
    {IPNet(<<0, 0, 0, 0>>, Zeros(4)),
     IPNet(IPv6zero, Zeros(16)),
     IPNet(IPv4zero, IPv4zero),
     IPNet(<<0, 0, 0, 0>>, <<>>),
     IPNet(IPv6zero, Zeros(4)),
     IPNet(<<128, 0, 0, 1>>, Zeros(4))}

PermittedLists ==
    {<<>>,
     <<IPNet(IPv4(128, 0, 0, 1), IPv4(255, 255, 255, 0)),
       IPNet(Zeros(15) \o <<1>>, IPv6zero)>>}

PermittedDNSLists == {<<>>, <<".example.com", "example.com">>}

ExcludedDNSLists == {<<>>, <<"example.org">>}

\* 2014-12-01T23:59:59Z and 2017-12-01T23:59:59Z, the dates of the tests, and
\* the cutoff itself.
NotBefores == {1417478399, nsSGCCutoff, 1512172799}

\* The certificates of the tests are CA certificates, but for the one of
\* TestNotACA, which has no usage.
CertificatesWith(usages, isCA) ==
    [ExtKeyUsage : usages,
     NotBefore : NotBefores,
     IsCA : isCA,
     PermittedDNSDomains : PermittedDNSLists,
     ExcludedDNSDomains : ExcludedDNSLists,
     PermittedIPAddresses : PermittedLists,
     ExcludedIPAddresses : SeqsUpTo(ExcludedEntries, MaxExcluded)]

CACertificates == CertificatesWith(SeqsUpTo(ExtKeyUsages, MaxUsages), {TRUE})

NonCACertificates == CertificatesWith({<<>>}, {FALSE})

(***************************************************************************)
(* The certificates of technicalconstraints_test.go, as the templates      *)
(* write them, in the order of the tests, and after them the 2014 step-up  *)
(* certificate dated at the cutoff.                                        *)
(***************************************************************************)
Template(usages, notBefore, isCA, permittedDNS, permittedIP, excludedIP) ==
    [ExtKeyUsage |-> usages,
     NotBefore |-> notBefore,
     IsCA |-> isCA,
     PermittedDNSDomains |-> permittedDNS,
     ExcludedDNSDomains |-> <<>>,
     PermittedIPAddresses |-> permittedIP,
     ExcludedIPAddresses |-> excludedIP]

ExampleDomains == <<".example.com", "example.com">>

BothFamilies == <<IPNet(IPv4zero, IPv4zero), IPNet(IPv6zero, IPv6zero)>>

ClientAndServerAuth == <<ExtKeyUsageClientAuth, ExtKeyUsageServerAuth>>

StepUpOnly == <<ExtKeyUsageNetscapeServerGatedCrypto>>

TestCertificates ==
    <<Template(<<>>, 1259711999, TRUE, <<>>, <<>>, <<>>),
      Template(<<ExtKeyUsageAny, ExtKeyUsageNetscapeServerGatedCrypto>>, 1259711999, TRUE,
               ExampleDomains, <<>>, BothFamilies),
      Template(StepUpOnly, 1417478399, TRUE, ExampleDomains, <<>>, BothFamilies),
      Template(StepUpOnly, 1417478399, TRUE, <<>>, <<>>, <<>>),
      Template(ClientAndServerAuth, 1512172799, TRUE, ExampleDomains, <<>>,
               <<IPNet(IPv4zero, IPv4zero)>>),
      Template(ClientAndServerAuth, 1512172799, TRUE, <<>>, <<>>, BothFamilies),
      Template(ClientAndServerAuth, 1512172799, TRUE, ExampleDomains, <<>>, BothFamilies),
      Template(ClientAndServerAuth, 1512172799, TRUE, ExampleDomains,
               <<IPNet(IPv4(128, 0, 0, 1), IPv4(255, 255, 255, 0)),
                 IPNet(Zeros(15) \o <<1>>, IPv6zero)>>, <<>>),
      Template(ClientAndServerAuth, 1512172799, TRUE, ExampleDomains, <<>>, <<>>),
      Template(<<>>, 1259711999, FALSE, <<>>, <<>>, <<>>),
      Template(StepUpOnly, nsSGCCutoff, TRUE, ExampleDomains, <<>>, BothFamilies)>>

(***************************************************************************)
(* State.  cert and result: one call, checkConstrained(t, expected, cert). *)
(* store, pc, arg, frame, ret: the calls of the tests, which run in        *)
(* parallel (t.Parallel), one goroutine each, every call with the locals   *)
(* of its own frame.                                                       *)
(***************************************************************************)
VARIABLES cert, result, store, pc, arg, frame, ret

vars == <<cert, result, store, pc, arg, frame, ret>>

callVars == <<cert, result>>

parVars == <<store, pc, arg, frame, ret>>

NumGoroutines == 2

Goroutines == 1..NumGoroutines

NoResult == <<>>

NilCert == "nil"

\* The locals of a call before line 42: Go's zero values.
ZeroFrame ==
    [stepUpEquivalentToServerAuth |-> FALSE,
     hasServerAuth |-> FALSE, hasStepUp |-> FALSE, i |-> 1,
     excludesIPv4 |-> FALSE, excludesIPv6 |-> FALSE, j |-> 1]

\* The frame that holds the locals of goroutine g's call.
SharedSlot(g) == 1

Slot(g) == g

ParIdle ==
    /\ store = TestCertificates
    /\ pc = [g \in Goroutines |-> "idle"]
    /\ arg = [g \in Goroutines |-> NilCert]
    /\ frame = [g \in Goroutines |-> ZeroFrame]
    /\ ret = [g \in Goroutines |-> NoResult]

(***************************************************************************)
(* One call, taken as a whole.                                             *)
(***************************************************************************)
Init ==
    /\ \/ cert \in CACertificates
       \/ cert \in NonCACertificates
    /\ result = NoResult
    /\ ParIdle

Evaluate ==
    /\ result = NoResult
    /\ result' = DetermineIfTechnicallyConstrained(cert)
    /\ UNCHANGED <<cert, parVars>>

Next == Evaluate

Spec == Init /\ [][Next]_vars

(***************************************************************************)
(* One call of the copy in src/gx509.go, taken as a whole.                 *)
(***************************************************************************)
EvaluateLegacy ==
    /\ result = NoResult
    /\ result' = LegacyDetermineIfTechnicallyConstrained(cert)
    /\ UNCHANGED <<cert, parVars>>

NextLegacy == EvaluateLegacy

SpecLegacy == Init /\ [][NextLegacy]_vars

(***************************************************************************)
(* Parallel calls, statement by statement.                                 *)
(***************************************************************************)
InitPar ==
    /\ cert = TestCertificates[1]
    /\ result = NoResult
    /\ ParIdle

\* checkConstrained(t, expected, cert): the call.
Call(g, c) ==
    /\ pc[g] = "idle"
    /\ pc' = [pc EXCEPT ![g] = "required"]
    /\ arg' = [arg EXCEPT ![g] = c]
    /\ UNCHANGED <<callVars, store, frame, ret>>

\* Lines 33-44.
CheckRequired(g) ==
    /\ pc[g] = "required"
    /\ LET c == store[arg[g]]
       IN  IF Len(c.ExtKeyUsage) = 0
           THEN /\ ret' = [ret EXCEPT ![g] = ExtKeyUsageRequired]
                /\ pc' = [pc EXCEPT ![g] = "done"]
                /\ UNCHANGED frame
           ELSE /\ frame' = [frame EXCEPT ![Slot(g)] =
                                [ZeroFrame EXCEPT !.stepUpEquivalentToServerAuth =
                                    Before(c.NotBefore, nsSGCCutoff)]]
                /\ pc' = [pc EXCEPT ![g] = "usages"]
                /\ UNCHANGED ret
    /\ UNCHANGED <<callVars, store, arg>>

\* Lines 46-56, one iteration.
UsageIteration(g) ==
    /\ pc[g] = "usages"
    /\ LET c == store[arg[g]]
           f == frame[Slot(g)]
       IN  /\ f.i <= Len(c.ExtKeyUsage)
           /\ LET nx == UsageCase(c.ExtKeyUsage[f.i],
                                  [returned |-> FALSE,
                                   hasServerAuth |-> f.hasServerAuth,
                                   hasStepUp |-> f.hasStepUp])
              IN  IF nx.returned
                  THEN /\ ret' = [ret EXCEPT ![g] = AnyNotPermitted]
                       /\ pc' = [pc EXCEPT ![g] = "done"]
                       /\ UNCHANGED frame
                  ELSE /\ frame' = [frame EXCEPT ![Slot(g)] =
                                       [f EXCEPT !.hasServerAuth = nx.hasServerAuth,
                                                 !.hasStepUp = nx.hasStepUp,
                                                 !.i = f.i + 1]]
                       /\ UNCHANGED <<pc, ret>>
    /\ UNCHANGED <<callVars, store, arg>>

\* Lines 59-69, after the loop.
CheckEligible(g) ==
    /\ pc[g] = "usages"
    /\ LET c == store[arg[g]]
           f == frame[Slot(g)]
       IN  /\ f.i > Len(c.ExtKeyUsage)
           /\ IF ~Eligible(f.hasServerAuth, f.stepUpEquivalentToServerAuth, f.hasStepUp)
              THEN /\ ret' = [ret EXCEPT ![g] =
                                 NotForServerAuth(f.hasServerAuth,
                                                  f.stepUpEquivalentToServerAuth,
                                                  f.hasStepUp)]
                   /\ pc' = [pc EXCEPT ![g] = "done"]
              ELSE /\ pc' = [pc EXCEPT ![g] = "excluded"]
                   /\ UNCHANGED ret
    /\ UNCHANGED <<callVars, store, arg, frame>>

\* Lines 70-77, one iteration.
ExcludedIteration(g) ==
    /\ pc[g] = "excluded"
    /\ LET c == store[arg[g]]
           f == frame[Slot(g)]
       IN  /\ f.j <= Len(c.ExcludedIPAddresses)
           /\ LET nx == ExcludedCase(c.ExcludedIPAddresses[f.j],
                                     [excludesIPv4 |-> f.excludesIPv4,
                                      excludesIPv6 |-> f.excludesIPv6])
              IN  frame' = [frame EXCEPT ![Slot(g)] =
                               [f EXCEPT !.excludesIPv4 = nx.excludesIPv4,
                                         !.excludesIPv6 = nx.excludesIPv6,
                                         !.j = f.j + 1]]
    /\ UNCHANGED <<callVars, store, arg, pc, ret>>

\* Lines 79-95, after the loop.
Decide(g) ==
    /\ pc[g] = "excluded"
    /\ LET c == store[arg[g]]
           f == frame[Slot(g)]
       IN  /\ f.j > Len(c.ExcludedIPAddresses)
           /\ ret' = [ret EXCEPT ![g] =
                         NameConstraintDecision(
                             c, [excludesIPv4 |-> f.excludesIPv4,
                                 excludesIPv6 |-> f.excludesIPv6])]
    /\ pc' = [pc EXCEPT ![g] = "done"]
    /\ UNCHANGED <<callVars, store, arg, frame>>

\* The test function ends; its goroutine is free for another test.
Return(g) ==
    /\ pc[g] = "done"
    /\ pc' = [pc EXCEPT ![g] = "idle"]
    /\ arg' = [arg EXCEPT ![g] = NilCert]
    /\ ret' = [ret EXCEPT ![g] = NoResult]
    /\ frame' = [frame EXCEPT ![Slot(g)] = ZeroFrame]
    /\ UNCHANGED <<callVars, store>>

NextPar ==
    \E g \in Goroutines :
        \/ \E c \in DOMAIN store : Call(g, c)
        \/ CheckRequired(g)
        \/ UsageIteration(g)
        \/ CheckEligible(g)
        \/ ExcludedIteration(g)
        \/ Decide(g)
        \/ Return(g)

SpecPar == InitPar /\ [][NextPar]_vars

(***************************************************************************)
(* The properties' own vocabulary, read off the certificate and not off    *)
(* the function's intermediate values.                                     *)
(***************************************************************************)
Evaluated == result # NoResult

HasUsage(c, tag) == \E i \in DOMAIN c.ExtKeyUsage : c.ExtKeyUsage[i] = tag

EligibleForServerAuth(c) ==
    /\ c.ExtKeyUsage # <<>>
    /\ ~HasUsage(c, ExtKeyUsageAny)
    /\ \/ HasUsage(c, ExtKeyUsageServerAuth)
       \/ HasUsage(c, ExtKeyUsageNetscapeServerGatedCrypto) /\ c.NotBefore < nsSGCCutoff

DNSConstrained(c) == c.PermittedDNSDomains # <<>> \/ c.ExcludedDNSDomains # <<>>

\* The mask has at least n bytes and its first n bytes are zero.
LeadingZeroMask(mask, n) == Len(mask) >= n /\ \A i \in 1..n : mask[i] = 0

FullRangeIPv4(n) ==
    /\ n.IP \in {<<0, 0, 0, 0>>, <<0, 0, 0, 0, 0, 0, 0, 0, 0, 0, 255, 255, 0, 0, 0, 0>>}
    /\ LeadingZeroMask(n.Mask, 4)

FullRangeIPv6(n) ==
    /\ n.IP = <<0, 0, 0, 0, 0, 0, 0, 0, 0, 0, 0, 0, 0, 0, 0, 0>>
    /\ LeadingZeroMask(n.Mask, 16)

ExcludesAllIPv4(c) ==
    \E i \in DOMAIN c.ExcludedIPAddresses : FullRangeIPv4(c.ExcludedIPAddresses[i])

ExcludesAllIPv6(c) ==
    \E i \in DOMAIN c.ExcludedIPAddresses : FullRangeIPv6(c.ExcludedIPAddresses[i])

(***************************************************************************)
(* C1: for a certificate eligible for server auth (usages non-empty,       *)
(* without Any, with ServerAuth or with the step-up usage and a notBefore  *)
(* before the cutoff) the returned boolean is true exactly when a DNS      *)
(* constraint is present and either a permitted IP subtree is present or   *)
(* both families are excluded in full.                                     *)
(***************************************************************************)
C1_ConstrainedIffCovered ==
    (Evaluated /\ EligibleForServerAuth(cert)) =>
        (result[1] <=>
            (DNSConstrained(cert)
             /\ (cert.PermittedIPAddresses # <<>>
                 \/ (ExcludesAllIPv4(cert) /\ ExcludesAllIPv6(cert)))))

\* An eligible certificate whose only DNS constraint is an excluded domain and
\* whose IP constraint is a permitted subtree, answered true.
C1_Witness ==
    /\ Evaluated
    /\ EligibleForServerAuth(cert)
    /\ cert.PermittedDNSDomains = <<>>
    /\ cert.ExcludedDNSDomains # <<>>
    /\ cert.PermittedIPAddresses # <<>>
    /\ cert.ExcludedIPAddresses = <<>>
    /\ result[1] = TRUE

(***************************************************************************)
(* C2: with no extended key usage the function returns                     *)
(* (false, "ExtKeyUsage is required"), whatever notBefore, the DNS and IP  *)
(* constraint lists and the CA flag are.                                   *)
(***************************************************************************)
C2_EmptyUsagesRequired ==
    (Evaluated /\ cert.ExtKeyUsage = <<>>) =>
        result = <<FALSE, "ExtKeyUsage is required">>

\* No usages on a certificate that is not a CA and that has DNS constraints
\* and both families excluded in full.
C2_Witness ==
    /\ Evaluated
    /\ cert.ExtKeyUsage = <<>>
    /\ ~cert.IsCA
    /\ DNSConstrained(cert)
    /\ ExcludesAllIPv4(cert) /\ ExcludesAllIPv6(cert)
    /\ cert.NotBefore >= nsSGCCutoff

(***************************************************************************)
(* C3: when the usages contain Any, at whatever position and next to       *)
(* whatever other usages, the function returns false with the one          *)
(* rationale of the Any case, whatever notBefore and the name constraints  *)
(* are.                                                                    *)
(***************************************************************************)
C3_AnyDecides ==
    (Evaluated /\ HasUsage(cert, ExtKeyUsageAny)) =>
        result = <<FALSE, "ExtKeyUsageAny not permitted">>

\* Any in last place, after ServerAuth, on a certificate whose name
\* constraints cover DNS and both IP families.
C3_Witness ==
    /\ Evaluated
    /\ Len(cert.ExtKeyUsage) >= 2
    /\ cert.ExtKeyUsage[1] = ExtKeyUsageServerAuth
    /\ cert.ExtKeyUsage[Len(cert.ExtKeyUsage)] = ExtKeyUsageAny
    /\ DNSConstrained(cert)
    /\ ExcludesAllIPv4(cert) /\ ExcludesAllIPv6(cert)

(***************************************************************************)
(* C4: before the cutoff, a certificate whose only usage is the step-up    *)
(* usage gets the Decision (boolean and rationale) the same certificate    *)
(* gets with ServerAuth as its only usage: true when the name constraints  *)
(* cover DNS and IP, false when they do not.                               *)
(***************************************************************************)
C4_StepUpAsServerAuth ==
    (/\ Evaluated
     /\ cert.ExtKeyUsage = <<ExtKeyUsageNetscapeServerGatedCrypto>>
     /\ cert.NotBefore < nsSGCCutoff) =>
        /\ result = DetermineIfTechnicallyConstrained(
                        [cert EXCEPT !.ExtKeyUsage = <<ExtKeyUsageServerAuth>>])
        /\ result[1] <=>
               (DNSConstrained(cert)
                /\ (cert.PermittedIPAddresses # <<>>
                    \/ (ExcludesAllIPv4(cert) /\ ExcludesAllIPv6(cert))))

\* Test2014StepUpConstrainedCert: step-up only, 2014, answered true.
C4_Witness ==
    /\ Evaluated
    /\ cert.ExtKeyUsage = <<ExtKeyUsageNetscapeServerGatedCrypto>>
    /\ cert.NotBefore = 1417478399
    /\ cert.PermittedDNSDomains # <<>>
    /\ ExcludesAllIPv4(cert) /\ ExcludesAllIPv6(cert)
    /\ result[1] = TRUE

(***************************************************************************)
(* C5: on or after the cutoff, a certificate with the step-up usage and    *)
(* with neither ServerAuth nor Any is answered true, and the Decision is   *)
(* the same for every value of the DNS and IP constraint lists.            *)
(***************************************************************************)
C5_StepUpAfterCutoffConstrained ==
    (/\ Evaluated
     /\ cert.NotBefore >= nsSGCCutoff
     /\ HasUsage(cert, ExtKeyUsageNetscapeServerGatedCrypto)
     /\ ~HasUsage(cert, ExtKeyUsageServerAuth)
     /\ ~HasUsage(cert, ExtKeyUsageAny)) =>
        result = <<TRUE, "Is constrained: hasServerAuth=false || "
                         \o "(beforeStepUpCutoff=false && hasStepUp=true)">>

\* notBefore equal to the cutoff and no name constraint at all.
C5_Witness ==
    /\ Evaluated
    /\ cert.NotBefore = nsSGCCutoff
    /\ HasUsage(cert, ExtKeyUsageNetscapeServerGatedCrypto)
    /\ ~HasUsage(cert, ExtKeyUsageServerAuth)
    /\ ~HasUsage(cert, ExtKeyUsageAny)
    /\ ~DNSConstrained(cert)
    /\ cert.PermittedIPAddresses = <<>>
    /\ cert.ExcludedIPAddresses = <<>>
    /\ result[1] = TRUE

Contains(s, t) ==
    \E i \in 1..(Len(s) + 1 - Len(t)) : SubSeq(s, i, i + Len(t) - 1) = t

StartsWith(s, p) == Len(s) >= Len(p) /\ SubSeq(s, 1, Len(p)) = p

Drop(s, p) == SubSeq(s, Len(p) + 1, Len(s))

\* Reads key and a bool at the head of s.
ReadValue(s, key) ==
    IF StartsWith(s, key \o "true")
    THEN [ok |-> TRUE, val |-> TRUE, rest |-> Drop(s, key \o "true")]
    ELSE IF StartsWith(s, key \o "false")
    THEN [ok |-> TRUE, val |-> FALSE, rest |-> Drop(s, key \o "false")]
    ELSE [ok |-> FALSE, val |-> FALSE, rest |-> s]

\* The three values a rationale states, read from its text.
ReadRationale(s) ==
    LET body == IF StartsWith(s, "Is constrained: ") THEN Drop(s, "Is constrained: ")
                ELSE IF StartsWith(s, "Is not constrained: ")
                THEN Drop(s, "Is not constrained: ")
                ELSE s
        dns == ReadValue(body, "hasDNSName=")
        permitted == ReadValue(dns.rest, " && (hasIPAddressInPermittedSubtrees=")
        excluded == ReadValue(permitted.rest, " || hasIPAddressesInExcludedSubtrees=")
    IN  [ok |-> dns.ok /\ permitted.ok /\ excluded.ok,
         hasDNSName |-> dns.val,
         hasIPAddressInPermittedSubtrees |-> permitted.val,
         hasIPAddressesInExcludedSubtrees |-> excluded.val]

InsertUsage(c, i, tag) ==
    [c EXCEPT !.ExtKeyUsage =
        SubSeq(c.ExtKeyUsage, 1, i - 1) \o <<tag>> \o SubSeq(c.ExtKeyUsage, i, Len(c.ExtKeyUsage))]

RemoveUsage(c, i) ==
    [c EXCEPT !.ExtKeyUsage =
        SubSeq(c.ExtKeyUsage, 1, i - 1) \o SubSeq(c.ExtKeyUsage, i + 1, Len(c.ExtKeyUsage))]

InertUsages == ExtKeyUsages \ {ExtKeyUsageAny, ExtKeyUsageServerAuth,
                               ExtKeyUsageNetscapeServerGatedCrypto}

\* C9 as stated: for every certificate, adding an inert usage anywhere in
\* the list, or removing one, leaves the Decision unchanged.
C9_InertUsagesAnyList ==
    Evaluated =>
        /\ \A tag \in InertUsages : \A i \in 1..(Len(cert.ExtKeyUsage) + 1) :
               DetermineIfTechnicallyConstrained(InsertUsage(cert, i, tag)) = result
        /\ \A i \in DOMAIN cert.ExtKeyUsage :
               cert.ExtKeyUsage[i] \in InertUsages =>
                   DetermineIfTechnicallyConstrained(RemoveUsage(cert, i)) = result

\* C9 as amended: adding an inert usage to a non-empty list, or removing one
\* while a usage remains, leaves the Decision unchanged.
C9_InertUsagesNonEmptyList ==
    (Evaluated /\ cert.ExtKeyUsage # <<>>) =>
        /\ \A tag \in InertUsages : \A i \in 1..(Len(cert.ExtKeyUsage) + 1) :
               DetermineIfTechnicallyConstrained(InsertUsage(cert, i, tag)) = result
        /\ \A i \in DOMAIN cert.ExtKeyUsage :
               (cert.ExtKeyUsage[i] \in InertUsages /\ Len(cert.ExtKeyUsage) > 1) =>
                   DetermineIfTechnicallyConstrained(RemoveUsage(cert, i)) = result

\* The usages of the 2017 tests, ClientAuth before ServerAuth, on the
\* name-constraint path with a true answer.
C9_Witness ==
    /\ Evaluated
    /\ cert.ExtKeyUsage = <<ExtKeyUsageClientAuth, ExtKeyUsageServerAuth>>
    /\ result[1] = TRUE
    /\ DNSConstrained(cert)

(***************************************************************************)
(* C10: calls running in parallel, on the same certificate or on           *)
(* different ones, do not interfere: every call returns the Decision of    *)
(* its certificate evaluated alone, two calls on equal certificates        *)
(* return equal Decisions, and no certificate is changed.                  *)
(***************************************************************************)
C10_NoInterference ==
    /\ store = TestCertificates
    /\ \A g \in Goroutines :
           pc[g] = "done" =>
               ret[g] = DetermineIfTechnicallyConstrained(TestCertificates[arg[g]])
    /\ \A g, h \in Goroutines :
           (pc[g] = "done" /\ pc[h] = "done" /\ store[arg[g]] = store[arg[h]]) =>
               ret[g] = ret[h]

\* Two calls on one certificate have both returned, the second having run its
\* loops while the first was inside its own.
C10_Witness ==
    /\ pc[1] = "done" /\ pc[2] = "done"
    /\ arg[1] = arg[2]
    /\ ret[1] = ret[2]
    /\ ret[1][1] = TRUE
    /\ frame[1].j > 1 /\ frame[2].j > 1

(***************************************************************************)
(* C11: the rationale returned when the usages contain Any.                *)
(***************************************************************************)
\* C11 as stated: when the usages contain Any, the rationale is exactly
\* "anyExtendedKeyUsage not permitted".
C11_AnyRationaleRFCName ==
    (Evaluated /\ HasUsage(cert, ExtKeyUsageAny)) =>
        result[2] = "anyExtendedKeyUsage not permitted"

\* C11 as amended: when the usages contain Any, the rationale is exactly
\* "ExtKeyUsageAny not permitted".
C11_AnyRationale ==
    (Evaluated /\ HasUsage(cert, ExtKeyUsageAny)) =>
        /\ result[2] = "ExtKeyUsageAny not permitted"
        /\ ~Contains(result[2], "anyExtendedKeyUsage")

\* Any as the only usage of a certificate without name constraints.
C11_Witness ==
    /\ Evaluated
    /\ cert.ExtKeyUsage = <<ExtKeyUsageAny>>
    /\ ~DNSConstrained(cert)
    /\ cert.PermittedIPAddresses = <<>>
    /\ cert.ExcludedIPAddresses = <<>>
    /\ result[2] = "ExtKeyUsageAny not permitted"

(***************************************************************************)
(* C12: the boolean and the rationale of every Decision agree: the         *)
(* function returns true exactly when its rationale begins with            *)
(* "Is constrained"; a true answer never reads "Is not constrained".       *)
(***************************************************************************)
C12_BooleanAgreesWithRationale ==
    Evaluated =>
        /\ result[1] <=> StartsWith(result[2], "Is constrained")
        /\ result[1] => ~StartsWith(result[2], "Is not constrained")

====
